---- MODULE Spec2Model ----
(***************************************************************************)
(* Data wrangling stage of votingbehavior.py (ESS11 notebook): column      *)
(* projection and rename, coalition collapse, sentinel-to-missing          *)
(* translation, missingness diagnostics and the completeness filter loop.  *)
(* A table (pandas DataFrame) is a record                                  *)
(*     [columns : Seq(STRING), rows : Seq([id : Nat, cells : col -> Int])] *)
(* where id is the pandas index label of the row.                          *)
(***************************************************************************)
EXTENDS Integers, Sequences, FiniteSets, TLC

VARIABLES
    df,                 \* the table the run reads (line 28)
    df_selected,        \* the working table (lines 69..225)
    df_missing,         \* the translated copy (lines 183..185)
    grouped_missing,    \* per coalition, per column: <<missing, rows>> (line 195)
    contingency_table,  \* crosstab of HouseholdIncome missing x coalition (line 210)
    df_filtered,        \* the clean table (line 229)
    report,             \* the printed (column, rows left) lines (line 227)
    order,              \* the column order the filter loop iterates in
    k,                  \* position of the filter loop in order
    collapsed,          \* the table as it left the coalition collapse (line 145)
    num_observations,   \* the row count last printed (lines 33, 73, 110, 226)
    party_counts,       \* the printed tally of VotedParty codes (line 123)
    df_final,           \* the table handed to modelling (lines 290-291)
    df_final2,          \* df_final without LeftRightScale (line 705)
    X,                  \* the feature matrix (lines 593, 708)
    y,                  \* the outcome column (lines 594, 709)
    X_scaled,           \* columns of the standardized matrix (lines 1565-1569)
    X_train,            \* training part of X (line 803)
    X_test,             \* test part of X (line 803)
    y_train,            \* training part of y
    y_test,             \* test part of y
    X_train_resampled,  \* the oversampled training part (lines 809, 909)
    y_train_resampled,  \* its outcome column
    block,              \* position in resampling_blocks
    clf_classes,        \* clf.classes_ of the tree last plotted
    class_names,        \* the class names handed to the last plot
    result,             \* the fitted MNLogit: baseline and parameter columns
    age_effect,         \* the effect of Age printed at line 1616
    run,                \* 1: the run on the raw table; 2, 3: re-application
    pc                  \* the statement the script is at

vars == <<df, df_selected, df_missing, grouped_missing, contingency_table,
          df_filtered, report, order, k, collapsed, num_observations,
          party_counts, df_final, df_final2, X, y, X_scaled, X_train, X_test,
          y_train, y_test, X_train_resampled, y_train_resampled, block,
          clf_classes, class_names, result, age_effect, run, pc>>

\* the variables of the wrangling stage (lines 28..229)
wrangling == <<df, df_selected, df_missing, grouped_missing, contingency_table,
               df_filtered, report, order, k, collapsed, num_observations,
               party_counts, run>>

\* the variables of the modelling stage (lines 290..1601)
modelling == <<df_final, df_final2, X, y, X_scaled, X_train, X_test, y_train,
               y_test, X_train_resampled, y_train_resampled, block,
               clf_classes, class_names, result, age_effect>>

\* the variables of the plots and of the printed coefficients
reporting == <<clf_classes, class_names, result, age_effect>>

\* the variables of a model block with oversampling (lines 803..1534)
resampling == <<X_train, X_test, y_train, y_test, X_train_resampled,
                y_train_resampled>>

(***************************************************************************)
(* Bounds of the model                                                     *)
(***************************************************************************)
MaxRows == 2

MaxAltered == 1

MaxClassRows == 8

(***************************************************************************)
(* pandas / Python values                                                  *)
(***************************************************************************)
\* np.nan, an empty cell of the csv, and the None assign_target returns:
\* a value that equals no survey code
NaN == -1

Range(s) == {s[i] : i \in DOMAIN s}

IndexOf(s, x) == CHOOSE i \in DOMAIN s : s[i] = x

EmptyTable == [columns |-> <<>>, rows |-> <<>>]

len(t) == Len(t.rows)

Ids(t) == {t.rows[i].id : i \in DOMAIN t.rows}

RowOf(t, id) == t.rows[CHOOSE i \in DOMAIN t.rows : t.rows[i].id = id]

\* Series.isin(values): NaN is in no list of codes
isin(v, values) == v \in values

isna(v) == v = NaN

\* df[mask], mask a boolean Series over the rows: the rows whose mask is
\* True, in the same order
Mask(t, mask) ==
    LET pos == [i \in DOMAIN t.rows |-> i]
        on(i) == mask[i]
        kept == SelectSeq(pos, on)
    IN  [t EXCEPT !.rows = [j \in DOMAIN kept |-> t.rows[kept[j]]]]

(***************************************************************************)
(* Rule tables of the script                                               *)
(***************************************************************************)
columns_to_keep ==
    << "agea", "gndr", "eisced", "hinctnta", "region", "emplrel",
       "mbtru", "polintr", "lrscale", "stfdem", "trstep",
       "rlgdgr", "imwbcnt", "nwspol", "freehms", "eqpaybg", "prtvteit" >>

column_mapping ==
    ("agea" :> "Age") @@
    ("gndr" :> "Gender") @@
    ("eisced" :> "EducationLevel") @@
    ("hinctnta" :> "HouseholdIncome") @@
    ("region" :> "Region") @@
    ("emplrel" :> "EmploymentStatus") @@
    ("mbtru" :> "TradeUnionMember") @@
    ("polintr" :> "PoliticalInterest") @@
    ("lrscale" :> "LeftRightScale") @@
    ("stfdem" :> "SatisfactionDemocracy") @@
    ("trstep" :> "TrustEP") @@
    ("rlgdgr" :> "Religion") @@
    ("imwbcnt" :> "AttitudesTowardImmigration") @@
    ("freehms" :> "AttitudeTowardLGBT") @@
    ("nwspol" :> "MediaConsumption") @@
    ("eqpaybg" :> "ZeroPayGapOpinion") @@
    ("prtvteit" :> "VotedParty")

\* the range without the exclusion of code 9
valid_parties_with_9 == 1..9

\* set(range(1, 10)) - {9}
valid_parties == (1..9) \ {9}

\* the dict in insertion order, as .items() iterates it
exclusion_rules ==
    << <<"VotedParty", <<66, 77, 88, 99>> >>,
       <<"ZeroPayGapOpinion", <<7, 8, 9>> >>,
       <<"MediaConsumption", <<7777, 8888, 9999>> >>,
       <<"AttitudeTowardLGBT", <<7, 8, 9>> >>,
       <<"EducationLevel", <<0, 55, 77, 88, 99>> >>,
       <<"Age", <<999>> >>,
       <<"Religion", <<77, 88, 99>> >>,
       <<"TrustEP", <<77, 88, 99>> >>,
       <<"AttitudesTowardImmigration", <<77, 88, 99>> >>,
       <<"Gender", <<9>> >>,
       <<"HouseholdIncome", <<77, 88, 99>> >>,
       <<"EmploymentStatus", <<7, 8, 9>> >>,
       <<"TradeUnionMember", <<7, 8, 9>> >>,
       <<"PoliticalInterest", <<7, 8, 9>> >>,
       <<"LeftRightScale", <<77, 88, 99>> >>,
       <<"SatisfactionDemocracy", <<77, 88, 99>> >>,
       <<"Region", <<99999>> >> >>

\* the keys without the last rule
rule_columns_but_last ==
    [i \in 1..(Len(exclusion_rules) - 1) |-> exclusion_rules[i][1]]

\* exclusion_rules.keys(), in order
rule_columns == [i \in DOMAIN exclusion_rules |-> exclusion_rules[i][1]]

\* the dict as a lookup: column -> its list of codes
values_by_column ==
    [c \in {exclusion_rules[i][1] : i \in DOMAIN exclusion_rules} |->
        exclusion_rules[CHOOSE i \in DOMAIN exclusion_rules :
                            exclusion_rules[i][1] = c][2]]

\* the rules with party code 8 among the codes of VotedParty
rule_values_with_party_8(column) ==
    IF column = "VotedParty" THEN <<8, 66, 77, 88, 99>>
    ELSE values_by_column[column]

\* exclusion_rules[column]
rule_values(column) == values_by_column[column]

\* f'<text> {i}' for i in range(first, last + 1)
Numbered(text, first, last) == [i \in first..last |-> <<text, i>>]

\* the dict of display labels, lines 233-252: column -> (code -> label)
label_names ==
    [Gender |-> (1 :> "Male") @@ (2 :> "Female"),
     EducationLevel |->
        (0 :> "Not harmonized") @@ (1 :> "Less than lower secondary")
            @@ (2 :> "Lower secondary") @@ (3 :> "Upper secondary")
            @@ (4 :> "Post-secondary") @@ (5 :> "Tertiary - first stage")
            @@ (6 :> "Tertiary - BA level") @@ (7 :> "Tertiary - >=MA level"),
     Region |-> (0 :> "Nord-Ovest") @@ (1 :> "Sud") @@ (2 :> "Isole")
                    @@ (3 :> "Nord-Est") @@ (4 :> "Centro"),
     HouseholdIncome |-> Numbered("Income decile", 1, 10),
     EmploymentStatus |-> (1 :> "Employee") @@ (2 :> "Self-employed")
                              @@ (3 :> "Family business") @@ (6 :> "Not applicable"),
     TradeUnionMember |-> (1 :> "Yes, currently") @@ (2 :> "Yes, previously")
                              @@ (3 :> "No"),
     PoliticalInterest |-> (1 :> "Very interestd") @@ (2 :> "Quite interested")
                               @@ (3 :> "Hardly interested")
                               @@ (4 :> "Not at all interested"),
     LeftRightScale |-> (0 :> "Left") @@ Numbered("Position", 1, 9) @@ (10 :> "Right"),
     SatisfactionDemocracy |-> (0 :> "Extremely dissatisfied")
                                   @@ Numbered("Level", 1, 9)
                                   @@ (10 :> "Extremely satisfied"),
     TrustEP |-> (0 :> "No trust") @@ Numbered("Level", 1, 9)
                     @@ (10 :> "Complete trust"),
     Religion |-> (0 :> "Not at all") @@ Numbered("Position", 1, 9)
                      @@ (10 :> "Very Religious"),
     ZeroPayGapOpinion |-> (0 :> "Very bad for Economy") @@ Numbered("Level", 1, 5)
                               @@ (6 :> "Very good for Economy"),
     AttitudeTowardLGBT |-> (1 :> "Strongly agree") @@ (2 :> "Agree")
                                @@ (3 :> "Neutral") @@ (4 :> "Disagree")
                                @@ (5 :> "Strongly disagree"),
     VotedCoalition |-> (1 :> "CSX") @@ (2 :> "M5S") @@ (3 :> "TerzoPolo")
                            @@ (4 :> "CDX"),
     AttitudesTowardImmigration |-> (0 :> "Imm. makes place worse")
                                        @@ Numbered("Level", 1, 9)
                                        @@ (10 :> "Imm. makes place better")]

(***************************************************************************)
(* Stages of the script, as functions on tables                            *)
(***************************************************************************)
\* df[columns_to_keep] raises KeyError when a listed column is absent
HasColumns(t, cols) == Range(cols) \subseteq Range(t.columns)

\* the projection followed by drop_duplicates(): a row whose cells repeat an
\* earlier row's is left out
ProjectDropDuplicates(t, cols) ==
    LET first == [i \in DOMAIN t.rows |->
                     \A j \in 1..(i - 1) :
                         \E c \in Range(cols) : t.rows[j].cells[c] # t.rows[i].cells[c]]
        projected == [columns |-> cols,
                      rows |-> [i \in DOMAIN t.rows |->
                                   [id |-> t.rows[i].id,
                                    cells |-> [c \in Range(cols) |-> t.rows[i].cells[c]]]]]
    IN  Mask(projected, first)

\* df[columns_to_keep]
Project(t, cols) ==
    [columns |-> cols,
     rows |-> [i \in DOMAIN t.rows |->
                  [id |-> t.rows[i].id,
                   cells |-> [c \in Range(cols) |-> t.rows[i].cells[c]]]]]

NewName(mapping, c) == IF c \in DOMAIN mapping THEN mapping[c] ELSE c

\* df_selected.rename(columns=column_mapping)
Rename(t, mapping) ==
    LET old == Range(t.columns)
        new == {NewName(mapping, c) : c \in old}
    IN  [columns |-> [i \in DOMAIN t.columns |-> NewName(mapping, t.columns[i])],
         rows |-> [i \in DOMAIN t.rows |->
                      [id |-> t.rows[i].id,
                       cells |-> [n \in new |->
                           t.rows[i].cells[CHOOSE c \in old : NewName(mapping, c) = n]]]]]

\* df_selected[df_selected['VotedParty'].isin(set(range(1, 10)) - {9})]
RangeFilter(t) ==
    LET keep == [i \in DOMAIN t.rows |-> isin(t.rows[i].cells["VotedParty"], valid_parties)]
    IN  Mask(t, keep)

\* assign_target with the coalitions numbered from 0
assign_target_from_zero(VotedParty) ==
    IF VotedParty \in {2, 7, 8, 10} THEN 0
    ELSE IF VotedParty \in {1, 4, 5} THEN 3
    ELSE IF VotedParty \in {3} THEN 1
    ELSE IF VotedParty \in {6} THEN 2
    ELSE NaN

\* assign_target with party 5 listed under CSX instead of CDX
assign_target_5_in_CSX(VotedParty) ==
    IF VotedParty \in {2, 5, 7, 8, 10} THEN 1
    ELSE IF VotedParty \in {1, 4} THEN 4
    ELSE IF VotedParty \in {3} THEN 2
    ELSE IF VotedParty \in {6} THEN 3
    ELSE NaN

assign_target(VotedParty) ==
    IF VotedParty \in {2, 7, 8, 10} THEN 1          \* CSX
    ELSE IF VotedParty \in {1, 4, 5} THEN 4         \* CDX
    ELSE IF VotedParty \in {3} THEN 2               \* M5S
    ELSE IF VotedParty \in {6} THEN 3               \* TerzoPolo
    ELSE NaN                                        \* None

\* the coalition column added as one more column even when the table has one
WithCoalitionAppended(t) ==
    [columns |-> Append(t.columns, "VotedCoalition"),
     rows |-> [i \in DOMAIN t.rows |->
                  [id |-> t.rows[i].id,
                   cells |-> [c \in Range(t.columns) \cup {"VotedCoalition"} |->
                       IF c = "VotedCoalition"
                       THEN assign_target(t.rows[i].cells["VotedParty"])
                       ELSE t.rows[i].cells[c]]]]]

\* df_selected['VotedCoalition'] = df_selected['VotedParty'].apply(assign_target)
WithCoalition(t) ==
    [columns |-> IF "VotedCoalition" \in Range(t.columns)
                 THEN t.columns
                 ELSE Append(t.columns, "VotedCoalition"),
     rows |-> [i \in DOMAIN t.rows |->
                  [id |-> t.rows[i].id,
                   cells |-> [c \in Range(t.columns) \cup {"VotedCoalition"} |->
                       IF c = "VotedCoalition"
                       THEN assign_target(t.rows[i].cells["VotedParty"])
                       ELSE t.rows[i].cells[c]]]]]

\* df_selected.dropna(subset=['VotedCoalition'])
dropna(t) ==
    LET keep == [i \in DOMAIN t.rows |-> ~isna(t.rows[i].cells["VotedCoalition"])]
    IN  Mask(t, keep)

\* df_missing[column].replace(missing_values, np.nan) for every rule
Translate(t) ==
    [t EXCEPT !.rows = [i \in DOMAIN t.rows |->
        [id |-> t.rows[i].id,
         cells |-> [c \in DOMAIN t.rows[i].cells |->
             IF c \in DOMAIN values_by_column
                /\ t.rows[i].cells[c] \in Range(rule_values(c))
             THEN NaN
             ELSE t.rows[i].cells[c]]]]]

\* the coalition labels that occur (groupby keys, crosstab columns)
Groups(t) == {t.rows[i].cells["VotedCoalition"] : i \in DOMAIN t.rows} \ {NaN}

\* the missing cells of a group counted against the rows of the whole table
GroupedMissingAllRows(t) ==
    [g \in Groups(t) |->
        [c \in Range(t.columns) |->
            << Cardinality({i \in DOMAIN t.rows :
                   t.rows[i].cells["VotedCoalition"] = g /\ isna(t.rows[i].cells[c])}),
               len(t) >>]]

\* missing_indicators.groupby('VotedCoalition').mean(), each mean kept as the
\* pair <<rows of the group with the cell missing, rows of the group>>
GroupedMissing(t) ==
    [g \in Groups(t) |->
        [c \in Range(t.columns) |->
            << Cardinality({i \in DOMAIN t.rows :
                   t.rows[i].cells["VotedCoalition"] = g /\ isna(t.rows[i].cells[c])}),
               Cardinality({i \in DOMAIN t.rows :
                   t.rows[i].cells["VotedCoalition"] = g}) >>]]

\* pd.crosstab(df_missing['HouseholdIncome'].isna(), df_missing['VotedCoalition'])
Crosstab(t) ==
    LET index == {isna(t.rows[i].cells["HouseholdIncome"]) : i \in DOMAIN t.rows}
    IN  [index |-> index,
         columns |-> Groups(t),
         n |-> [x \in index \X Groups(t) |->
                   Cardinality({i \in DOMAIN t.rows :
                       /\ isna(t.rows[i].cells["HouseholdIncome"]) = x[1]
                       /\ t.rows[i].cells["VotedCoalition"] = x[2]})]]

\* the filter comparing with the first listed code only (== instead of isin)
ExclusionFilterFirstCode(t, column, values_to_exclude) ==
    LET keep == [i \in DOMAIN t.rows |-> t.rows[i].cells[column] # values_to_exclude[1]]
    IN  Mask(t, keep)

\* the filter skipped when it would leave no row
ExclusionFilterUnlessEmpty(t, column, values_to_exclude) ==
    LET keep == [i \in DOMAIN t.rows |-> ~isin(t.rows[i].cells[column], Range(values_to_exclude))]
    IN  IF len(Mask(t, keep)) = 0 THEN t ELSE Mask(t, keep)

\* df_selected[~df_selected[column].isin(values_to_exclude)]
\* the rule imputing the first valid code in place of removing the row
ExclusionFilterImpute(t, column, values_to_exclude) ==
    [columns |-> t.columns,
     rows |-> [i \in DOMAIN t.rows |->
                  [id |-> t.rows[i].id,
                   cells |-> [c \in DOMAIN t.rows[i].cells |->
                                 IF c = column /\ isin(t.rows[i].cells[c],
                                                       Range(values_to_exclude))
                                 THEN 1 ELSE t.rows[i].cells[c]]]]]

ExclusionFilter(t, column, values_to_exclude) ==
    LET keep == [i \in DOMAIN t.rows |-> ~isin(t.rows[i].cells[column], Range(values_to_exclude))]
    IN  Mask(t, keep)

\* the loop of lines 224-225 run over the first n columns of columns
RECURSIVE ApplyRules(_, _, _)
ApplyRules(t, columns, n) ==
    IF n = 0
    THEN t
    ELSE ExclusionFilter(ApplyRules(t, columns, n - 1),
                         columns[n], rule_values(columns[n]))

\* df.reindex(columns=cols): an absent column comes out as a column of NaN
\* the tally taken on the rows the range filter keeps
value_counts_valid(t, column) ==
    LET codes == {r.cells[column] : r \in Range(RangeFilter(t).rows)} \ {NaN}
    IN  [c \in codes |->
            Cardinality({i \in DOMAIN t.rows : t.rows[i].cells[column] = c})]

\* Series.value_counts(), line 123: rows per code present, missing cells left out
value_counts(t, column) ==
    LET codes == {r.cells[column] : r \in Range(t.rows)} \ {NaN}
    IN  [c \in codes |->
            Cardinality({i \in DOMAIN t.rows : t.rows[i].cells[column] = c})]

Reindex(t, cols) ==
    [columns |-> cols,
     rows |-> [i \in DOMAIN t.rows |->
                  [id |-> t.rows[i].id,
                   cells |-> [c \in Range(cols) |->
                       IF c \in Range(t.columns) THEN t.rows[i].cells[c] ELSE NaN]]]]

(***************************************************************************)
(* The script, statement by statement                                      *)
(***************************************************************************)
\* the projection written with reindex, which raises nothing
SelectColumnsReindex ==
    /\ pc = "read"
    /\ df_selected' = Reindex(df, columns_to_keep)
    /\ num_observations' = len(df_selected')
    /\ pc' = "projected"
    /\ UNCHANGED <<df, df_missing, grouped_missing, contingency_table,
                   df_filtered, report, order, k, collapsed, run,
                   party_counts, modelling>>

\* lines 69-74
SelectColumns ==
    /\ pc = "read"
    /\ IF HasColumns(df, columns_to_keep)
       THEN /\ df_selected' = Project(df, columns_to_keep)
            /\ num_observations' = len(df_selected')
            /\ pc' = "projected"
       ELSE /\ df_selected' = df_selected
            /\ num_observations' = num_observations
            /\ pc' = "KeyError"
    /\ UNCHANGED <<df, df_missing, grouped_missing, contingency_table,
                   df_filtered, report, order, k, collapsed, run,
                   party_counts, modelling>>

\* lines 97-123: the rename, the row count and the tally of party codes
RenameColumns ==
    /\ pc = "projected"
    /\ df_selected' = Rename(df_selected, column_mapping)
    /\ num_observations' = len(df_selected')
    /\ party_counts' = value_counts(df_selected', "VotedParty")
    /\ pc' = "renamed"
    /\ UNCHANGED <<df, df_missing, grouped_missing, contingency_table,
                   df_filtered, report, order, k, collapsed, run,
                   modelling>>

\* line 126
FilterParties ==
    /\ pc = "renamed"
    /\ df_selected' = RangeFilter(df_selected)
    /\ pc' = "range_filtered"
    /\ UNCHANGED <<df, df_missing, grouped_missing, contingency_table,
                   df_filtered, report, order, k, collapsed, run,
                   num_observations, party_counts, modelling>>

\* line 142
AssignCoalition ==
    /\ pc = "range_filtered"
    /\ df_selected' = WithCoalition(df_selected)
    /\ pc' = "assigned"
    /\ UNCHANGED <<df, df_missing, grouped_missing, contingency_table,
                   df_filtered, report, order, k, collapsed, run,
                   num_observations, party_counts, modelling>>

\* line 145
DropUnassigned ==
    /\ pc = "assigned"
    /\ df_selected' = dropna(df_selected)
    /\ collapsed' = df_selected'
    /\ pc' = "collapsed"
    /\ UNCHANGED <<df, df_missing, grouped_missing, contingency_table,
                   df_filtered, report, order, k, run,
                   num_observations, party_counts, modelling>>

\* the translation done on df_selected itself (df_missing = df_selected, no copy)
MissingCopyAliased ==
    /\ pc = "collapsed"
    /\ df_missing' = Translate(df_selected)
    /\ df_selected' = df_missing'
    /\ pc' = "translated"
    /\ UNCHANGED <<df, grouped_missing, contingency_table,
                   df_filtered, report, order, k, collapsed, run,
                   num_observations, party_counts, modelling>>

\* lines 183-185
MissingCopy ==
    /\ pc = "collapsed"
    /\ df_missing' = Translate(df_selected)
    /\ pc' = "translated"
    /\ UNCHANGED <<df, df_selected, grouped_missing, contingency_table,
                   df_filtered, report, order, k, collapsed, run,
                   num_observations, party_counts, modelling>>

\* the diagnostics leaving the translated copy in df_selected
DiagnosticsKeepsTranslated ==
    /\ pc = "translated"
    /\ grouped_missing' = GroupedMissing(df_missing)
    /\ contingency_table' = Crosstab(df_missing)
    /\ pc' = IF len(df_missing) = 0 THEN "ValueError" ELSE "filtering"
    /\ k' = 1
    /\ df_selected' = df_missing
    /\ UNCHANGED <<df, df_missing, df_filtered, report, order,
                   collapsed, run,
                   num_observations, party_counts, modelling>>

\* lines 188-219; chi2_contingency raises ValueError on a table of size 0
Diagnostics ==
    /\ pc = "translated"
    /\ grouped_missing' = GroupedMissing(df_missing)
    /\ contingency_table' = Crosstab(df_missing)
    /\ pc' = IF len(df_missing) = 0 THEN "ValueError" ELSE "filtering"
    /\ k' = 1
    /\ UNCHANGED <<df, df_selected, df_missing, df_filtered, report, order,
                   collapsed, run,
                   num_observations, party_counts, modelling>>

\* the loop body printing len(df), the rows read, instead of the rows left
FilterStepCountsInput ==
    /\ pc = "filtering"
    /\ k <= Len(order)
    /\ df_selected' = ExclusionFilter(df_selected, order[k], rule_values(order[k]))
    /\ report' = Append(report, <<order[k], len(df)>>)
    /\ num_observations' = len(df_selected')
    /\ k' = k + 1
    /\ UNCHANGED <<df, df_missing, grouped_missing, contingency_table,
                   df_filtered, order, collapsed, run, pc,
                   party_counts, modelling>>

\* the loop body taking len(df_selected) before the column's filter is applied
FilterStepCountsBefore ==
    /\ pc = "filtering"
    /\ k <= Len(order)
    /\ df_selected' = ExclusionFilter(df_selected, order[k], rule_values(order[k]))
    /\ report' = Append(report, <<order[k], len(df_selected)>>)
    /\ num_observations' = len(df_selected')
    /\ k' = k + 1
    /\ UNCHANGED <<df, df_missing, grouped_missing, contingency_table,
                   df_filtered, order, collapsed, run, pc,
                   party_counts, modelling>>

\* lines 224-227, one iteration
FilterStep ==
    /\ pc = "filtering"
    /\ k <= Len(order)
    /\ df_selected' = ExclusionFilter(df_selected, order[k], rule_values(order[k]))
    /\ report' = Append(report, <<order[k], len(df_selected')>>)
    /\ num_observations' = len(df_selected')
    /\ k' = k + 1
    /\ UNCHANGED <<df, df_missing, grouped_missing, contingency_table,
                   df_filtered, order, collapsed, run, pc,
                   party_counts, modelling>>

\* the clean table taken as a random sample of the filtered rows
\* (df_selected.sample(...) without a seed)
FinishSampled ==
    /\ pc = "filtering"
    /\ k > Len(order)
    /\ \E T \in SUBSET Ids(df_selected) :
           df_filtered' = Mask(df_selected,
                               [i \in DOMAIN df_selected.rows |->
                                   df_selected.rows[i].id \in T])
    /\ pc' = "done"
    /\ UNCHANGED <<df, df_selected, df_missing, grouped_missing,
                   contingency_table, report, order, k, collapsed, run,
                   num_observations, party_counts, modelling>>

\* line 229
Finish ==
    /\ pc = "filtering"
    /\ k > Len(order)
    /\ df_filtered' = df_selected
    /\ pc' = "done"
    /\ UNCHANGED <<df, df_selected, df_missing, grouped_missing,
                   contingency_table, report, order, k, collapsed, run,
                   num_observations, party_counts, modelling>>

(***************************************************************************)
(* Hand-over to modelling.  Lines 294-298 re-encode the columns of dtype   *)
(* object; the cells of a table here are numeric codes, so no column is.   *)
(* StandardScaler yields reals: of X_scaled only the columns are kept.     *)
(***************************************************************************)
\* DataFrame.drop(columns=labels) / drop(label, axis=1)
drop(t, labels) ==
    LET kept == SelectSeq(t.columns, LAMBDA c : c \notin labels)
    IN  [columns |-> kept,
         rows |-> [i \in DOMAIN t.rows |->
                      [id |-> t.rows[i].id,
                       cells |-> [c \in Range(kept) |-> t.rows[i].cells[c]]]]]

\* df[column]: the index labels with the values of one column
column_of(t, column) ==
    [i \in DOMAIN t.rows |-> <<t.rows[i].id, t.rows[i].cells[column]>>]

\* the copy handed over with every column of the clean table
CopyFiltered ==
    /\ pc = "done"
    /\ df_final' = df_filtered
    /\ pc' = "final"
    /\ UNCHANGED <<wrangling, df_final2, X, y, X_scaled, resampling, block, reporting>>

\* lines 290-291
DropVotedParty ==
    /\ pc = "done"
    /\ df_final' = drop(df_filtered, {"VotedParty"})
    /\ pc' = "final"
    /\ UNCHANGED <<wrangling, df_final2, X, y, X_scaled, resampling, block, reporting>>

\* lines 593-594
SplitFeatures ==
    /\ pc = "final"
    /\ X' = drop(df_final, {"VotedCoalition"})
    /\ y' = column_of(df_final, "VotedCoalition")
    /\ pc' = "features"
    /\ UNCHANGED <<wrangling, df_final, df_final2, X_scaled, resampling, block, reporting>>

(***************************************************************************)
(* train_test_split with test_size=0.2, and the trees of lines 597-695     *)
(***************************************************************************)
\* the class codes of an outcome column
classes(ys) == {ys[i][2] : i \in DOMAIN ys}

class_count(ys, c) == Cardinality({i \in DOMAIN ys : ys[i][2] = c})

\* rows of the test part for test_size=0.2: ceil(0.2 * n)
n_test(n) == (n + 4) \div 5

\* the subsets of S with size elements
RECURSIVE KSubsets(_, _)
KSubsets(S, size) ==
    IF size = 0 THEN {{}}
    ELSE IF Cardinality(S) < size THEN {}
    ELSE LET x == CHOOSE e \in S : TRUE
         IN  {T \cup {x} : T \in KSubsets(S \ {x}, size - 1)}
                 \cup KSubsets(S \ {x}, size)

\* train_test_split(..., stratify=y) raises ValueError: an empty part, a class
\* with one member, or a part with fewer rows than there are classes
SplitFails(ys) ==
    LET n == Len(ys)
    IN  \/ n - n_test(n) = 0
        \/ \E c \in classes(ys) : class_count(ys, c) < 2
        \/ n_test(n) < Cardinality(classes(ys))
        \/ n - n_test(n) < Cardinality(classes(ys))

\* the index labels the stratified shuffle can put in the test part: each
\* class in proportion, rounded down or up
TestSets(ys) ==
    LET n == Len(ys)
        ids == {ys[i][1] : i \in DOMAIN ys}
        of(T, c) == Cardinality({i \in DOMAIN ys : ys[i][1] \in T /\ ys[i][2] = c})
    IN  {T \in KSubsets(ids, n_test(n)) :
            \A c \in classes(ys) :
                /\ (class_count(ys, c) * n_test(n)) \div n <= of(T, c)
                /\ of(T, c) <= (class_count(ys, c) * n_test(n) + n - 1) \div n}

\* the rows of t / entries of ys whose index label is in T
take(t, T) == Mask(t, [i \in DOMAIN t.rows |-> t.rows[i].id \in T])

take_y(ys, T) == SelectSeq(ys, LAMBDA e : e[1] \in T)

\* the elements of a set of integers in ascending order
RECURSIVE SortedSeq(_)
SortedSeq(S) ==
    IF S = {} THEN <<>>
    ELSE LET least == CHOOSE x \in S : \A z \in S : x <= z
         IN  <<least>> \o SortedSeq(S \ {least})

\* target_names, line 636 (again line 706): a dict, whose values() come in
\* insertion order
target_names == <<<<4, "CDX">>, <<1, "CSX">>, <<2, "M5S">>, <<3, "3POLO">>>>

\* target_names[c]
target_name(c) ==
    target_names[CHOOSE i \in DOMAIN target_names : target_names[i][1] = c][2]

\* list(target_names.values())
target_names_values == [i \in DOMAIN target_names |-> target_names[i][2]]

\* lines 597-649: the first tree, fitted on the training part of an
\* unstratified split, and its plot.  clf.classes_ are the classes of the
\* training part in ascending order.  The parts of this split serve the
\* tree only and are replaced at line 662, so of the step the model keeps
\* the classes of the tree and the names passed to plot_tree.
PlotTree ==
    /\ pc = "features"
    /\ IF Len(y) - n_test(Len(y)) = 0
       THEN /\ pc' = "split_ValueError"
            /\ UNCHANGED <<clf_classes, class_names>>
       ELSE \E T \in KSubsets({y[i][1] : i \in DOMAIN y}, n_test(Len(y))) :
                /\ clf_classes' =
                       SortedSeq(classes(SelectSeq(y, LAMBDA e : e[1] \notin T)))
                /\ class_names' = target_names_values
                /\ pc' = "tree_plotted"
    /\ UNCHANGED <<wrangling, df_final, df_final2, X, y, X_scaled, resampling,
                   block, result, age_effect>>

\* lines 662-695: the tree on the stratified split and its plot (lines 744
\* and 778 build class_names the same way)
PlotStratifiedTree ==
    /\ pc = "tree_plotted"
    /\ IF SplitFails(y)
       THEN /\ pc' = "split_ValueError"
            /\ UNCHANGED <<clf_classes, class_names>>
       ELSE /\ clf_classes' = SortedSeq(classes(y))
            /\ class_names' =
                   [i \in DOMAIN clf_classes' |-> target_name(clf_classes'[i])]
            /\ pc' = "stratified_plotted"
    /\ UNCHANGED <<wrangling, df_final, df_final2, X, y, X_scaled, resampling,
                   block, result, age_effect>>

\* lines 705-709 (761-762 repeat 708-709)
SplitFeaturesReduced ==
    /\ pc = "stratified_plotted"
    /\ df_final2' = drop(df_final, {"LeftRightScale"})
    /\ X' = drop(df_final2', {"VotedCoalition"})
    /\ y' = column_of(df_final2', "VotedCoalition")
    /\ block' = 1
    /\ pc' = "features_reduced"
    /\ UNCHANGED <<wrangling, df_final, X_scaled, resampling, reporting>>

(***************************************************************************)
(* Model blocks with oversampling.  A block splits X, y (train_test_split  *)
(* with test_size=0.2 and stratify=y), oversamples the training part and   *)
(* predicts on X_test.  The shuffle is any stratified choice of the test   *)
(* rows, the same in every block (random_state=42 throughout); the parts   *)
(* keep the rows in table order.  A synthetic row of SMOTE                 *)
(* takes the cells of the training row it starts from.  The script has the *)
(* blocks by sampler: SMOTE (lines 803-826; again at 851, 1034, 1090,      *)
(* 1327), RandomOverSampler (lines 903-922; again at 1157, 1386) and SMOTE *)
(* inside an ImbPipeline (lines 1452-1475; again at 1504).                 *)
(***************************************************************************)
resampling_blocks == <<"SMOTE", "RandomOverSampler", "ImbPipeline">>

\* SMOTE(random_state=42), line 808: k_neighbors is left at its default
k_neighbors == 5

\* rows of the largest class
majority(ys) ==
    CHOOSE m \in {class_count(ys, c) : c \in classes(ys)} :
        \A c \in classes(ys) : class_count(ys, c) <= m

\* fit_resample raises ValueError: one class only, or (SMOTE) a class to
\* oversample with no more than k_neighbors rows
ResampleFails(sampler, ys) ==
    \/ Cardinality(classes(ys)) < 2
    \/ /\ sampler # "RandomOverSampler"
       /\ \E c \in classes(ys) :
              class_count(ys, c) < majority(ys) /\ class_count(ys, c) <= k_neighbors

\* the classes of the rows to add, in ascending class order: each class is
\* brought to the size of the largest
RECURSIVE Needed(_, _)
Needed(ys, cs) ==
    IF cs = {} THEN <<>>
    ELSE LET c == CHOOSE x \in cs : \A z \in cs : x <= z
         IN  [j \in 1..(majority(ys) - class_count(ys, c)) |-> c]
                 \o Needed(ys, cs \ {c})

\* the choices of a training row (by position) for every row to add
Picks(ys) ==
    LET needed == Needed(ys, classes(ys))
    IN  {f \in [DOMAIN needed -> DOMAIN ys] :
            \A j \in DOMAIN needed : ys[f[j]][2] = needed[j]}

\* fit_resample(t, ys): the rows of t followed by the added rows, with a
\* fresh RangeIndex
Oversampled(t, ys, pick) ==
    [columns |-> t.columns,
     rows |-> [i \in 1..(Len(ys) + Len(pick)) |->
                  [id |-> i - 1,
                   cells |-> IF i <= Len(ys) THEN t.rows[i].cells
                             ELSE t.rows[pick[i - Len(ys)]].cells]]]

Oversampled_y(ys, pick) ==
    [i \in 1..(Len(ys) + Len(pick)) |->
        <<i - 1, IF i <= Len(ys) THEN ys[i][2] ELSE ys[pick[i - Len(ys)]][2]>>]

\* lines 803-805
TrainTestSplit ==
    /\ pc = "features_reduced"
    /\ block <= Len(resampling_blocks)
    /\ IF SplitFails(y)
       THEN /\ pc' = "split_ValueError"
            /\ UNCHANGED <<X_train, X_test, y_train, y_test>>
       ELSE \E T \in IF len(X_test) = 0 THEN TestSets(y) ELSE {Ids(X_test)} :
                /\ X_test' = take(X, T)
                /\ y_test' = take_y(y, T)
                /\ X_train' = take(X, Ids(X) \ T)
                /\ y_train' = take_y(y, Ids(X) \ T)
                /\ pc' = "split"
    /\ UNCHANGED <<wrangling, df_final, df_final2, X, y, X_scaled,
                   X_train_resampled, y_train_resampled, block, reporting>>

\* the whole table oversampled, and the test part drawn from the result
ResampleWhole ==
    /\ pc = "split"
    /\ resampling_blocks[block] # "ImbPipeline"
    /\ IF ResampleFails(resampling_blocks[block], y)
       THEN /\ pc' = "resample_ValueError"
            /\ UNCHANGED <<X_train_resampled, y_train_resampled, X_test, y_test>>
       ELSE \E pick \in Picks(y) :
                /\ X_train_resampled' = Oversampled(X, y, pick)
                /\ y_train_resampled' = Oversampled_y(y, pick)
                /\ \E T \in TestSets(y_train_resampled') :
                       /\ X_test' = take(X_train_resampled', T)
                       /\ y_test' = take_y(y_train_resampled', T)
                /\ pc' = "resampled"
    /\ UNCHANGED <<wrangling, df_final, df_final2, X, y, X_scaled,
                   X_train, y_train, block, reporting>>

\* lines 808-809 (SMOTE), 908-909 (RandomOverSampler)
Resample ==
    /\ pc = "split"
    /\ resampling_blocks[block] # "ImbPipeline"
    /\ IF ResampleFails(resampling_blocks[block], y_train)
       THEN /\ pc' = "resample_ValueError"
            /\ UNCHANGED <<X_train_resampled, y_train_resampled>>
       ELSE \E pick \in Picks(y_train) :
                /\ X_train_resampled' = Oversampled(X_train, y_train, pick)
                /\ y_train_resampled' = Oversampled_y(y_train, pick)
                /\ pc' = "resampled"
    /\ UNCHANGED <<wrangling, df_final, df_final2, X, y, X_scaled,
                   X_train, X_test, y_train, y_test, block, reporting>>

\* lines 820-826: the fit on the oversampled training part and the
\* prediction on X_test
FitPredict ==
    /\ pc = "resampled"
    /\ block' = block + 1
    /\ pc' = "features_reduced"
    /\ UNCHANGED <<wrangling, df_final, df_final2, X, y, X_scaled, resampling, reporting>>

\* lines 1457-1475: the pipeline fitted on X_train, which oversamples what it
\* is given before the classifier sees it, and the prediction on X_test
FitPredictPipeline ==
    /\ pc = "split"
    /\ resampling_blocks[block] = "ImbPipeline"
    /\ IF ResampleFails("SMOTE", y_train)
       THEN /\ pc' = "resample_ValueError"
            /\ block' = block
       ELSE /\ block' = block + 1
            /\ pc' = "features_reduced"
    /\ UNCHANGED <<wrangling, df_final, df_final2, X, y, X_scaled, resampling, reporting>>

\* lines 1565-1569 (1584-1592 repeat them): the scaled matrix with its intercept
Standardize ==
    /\ pc = "features_reduced"
    /\ block > Len(resampling_blocks)
    /\ X_scaled' = <<"const">> \o X.columns
    /\ pc' = "scaled"
    /\ UNCHANGED <<wrangling, df_final, df_final2, X, y, resampling, block, reporting>>

(***************************************************************************)
(* Multinomial logit (lines 1572-1616).  Of a fit only the classes are      *)
(* kept: MNLogit takes the smallest value of its outcome as the baseline   *)
(* and has one parameter column, numbered from 0, for each other value in  *)
(* ascending order.  The field coalition records which coalition a value   *)
(* of the outcome stands for.  The coefficients themselves are outside the *)
(* model.                                                                  *)
(***************************************************************************)
\* Series.reset_index(drop=True)
reset_index(ys) == [i \in DOMAIN ys |-> <<i - 1, ys[i][2]>>]

\* categories=[2, 1, 3, 4], line 1596
y_cat_categories == <<2, 1, 3, 4>>

\* pd.Categorical(y, categories).codes: the position of each value, from 0
categorical_codes(ys, categories) ==
    [i \in DOMAIN ys |-> <<ys[i][1], IndexOf(categories, ys[i][2]) - 1>>]

\* sm.MNLogit(endog, exog).fit(), with what each value of endog stands for
MNLogit(endog, coalition) ==
    LET values == SortedSeq(classes(endog))
    IN  [baseline |-> values[1],
         columns |-> Tail(values),
         coalition |-> [v \in classes(endog) |-> coalition[v]]]

\* lines 1572-1575: the fit on the coalition codes of y
FitMNLogit ==
    /\ pc = "scaled"
    /\ y' = reset_index(y)
    /\ result' = MNLogit(y', [v \in classes(y) |-> v])
    /\ pc' = "fitted"
    /\ UNCHANGED <<wrangling, df_final, df_final2, X, X_scaled, resampling,
                   block, clf_classes, class_names, age_effect>>

\* lines 1584-1601: the fit on the codes of the reordered categories
RefitMNLogit ==
    /\ pc = "fitted"
    /\ X' = drop(df_final2, {"VotedCoalition"})
    /\ y' = reset_index(column_of(df_final2, "VotedCoalition"))
    /\ X_scaled' = <<"const">> \o X'.columns
    /\ result' = MNLogit(categorical_codes(y', y_cat_categories),
                         [v \in 0..(Len(y_cat_categories) - 1) |->
                             y_cat_categories[v + 1]])
    /\ pc' = "refitted"
    /\ UNCHANGED <<wrangling, df_final, df_final2, resampling, block,
                   clf_classes, class_names, age_effect>>

\* lines 1613-1616: the coefficient of Age in parameter column 0 of result,
\* printed as the effect on the odds of "M5S vs CSX"
ReportAgeEffect ==
    /\ pc = "refitted"
    /\ age_effect' = [column |-> 0,
                      equation |-> result.coalition[result.columns[1]],
                      baseline |-> result.coalition[result.baseline],
                      printed |-> <<"M5S", "CSX">>]
    /\ pc' = "reported"
    /\ UNCHANGED <<wrangling, df_final, df_final2, X, y, X_scaled, resampling,
                   block, clf_classes, class_names, result>>

(***************************************************************************)
(* Re-application of the pipeline to its own clean table                   *)
(***************************************************************************)
\* the whole script again, reading the clean table (lines 28..229)
ReapplyAll ==
    /\ pc = "done" /\ run = 1
    /\ df' = df_filtered
    /\ run' = 2
    /\ pc' = "read"
    /\ df_selected' = EmptyTable /\ df_missing' = EmptyTable
    /\ df_filtered' = EmptyTable /\ collapsed' = EmptyTable
    /\ grouped_missing' = <<>> /\ contingency_table' = <<>>
    /\ report' = <<>> /\ k' = 0
    /\ num_observations' = len(df_filtered)
    /\ party_counts' = value_counts(EmptyTable, "VotedParty")
    /\ UNCHANGED <<order, modelling>>

\* the stages after the rename again, on the clean table (lines 126..229)
ReapplyFromCollapse ==
    /\ pc = "done" /\ run = 1
    /\ df' = df_filtered
    /\ run' = 3
    /\ pc' = "renamed"
    /\ df_selected' = df_filtered /\ df_missing' = EmptyTable
    /\ df_filtered' = EmptyTable /\ collapsed' = EmptyTable
    /\ grouped_missing' = <<>> /\ contingency_table' = <<>>
    /\ report' = <<>> /\ k' = 0
    /\ UNCHANGED <<order, num_observations, party_counts, modelling>>

Next ==
    \/ SelectColumns
    \/ RenameColumns
    \/ FilterParties
    \/ AssignCoalition
    \/ DropUnassigned
    \/ MissingCopy
    \/ Diagnostics
    \/ FilterStep
    \/ Finish
    \/ DropVotedParty
    \/ SplitFeatures
    \/ PlotTree
    \/ PlotStratifiedTree
    \/ SplitFeaturesReduced
    \/ TrainTestSplit
    \/ Resample
    \/ FitPredict
    \/ FitPredictPipeline
    \/ Standardize
    \/ FitMNLogit
    \/ RefitMNLogit
    \/ ReportAgeEffect
    \/ ReapplyAll
    \/ ReapplyFromCollapse

(***************************************************************************)
(* Input tables                                                            *)
(***************************************************************************)
\* header of ESS11.csv: the respondent number and the columns the script reads
csv_columns == <<"idno">> \o columns_to_keep

\* a respondent who answered every question with a substantive code
Answered ==
    ("agea" :> 40) @@ ("gndr" :> 1) @@ ("eisced" :> 3) @@ ("hinctnta" :> 5) @@
    ("region" :> 4) @@ ("emplrel" :> 1) @@ ("mbtru" :> 3) @@ ("polintr" :> 2) @@
    ("lrscale" :> 5) @@ ("stfdem" :> 6) @@ ("trstep" :> 4) @@ ("rlgdgr" :> 6) @@
    ("imwbcnt" :> 5) @@ ("nwspol" :> 60) @@ ("freehms" :> 2) @@ ("eqpaybg" :> 6)

\* the csv row of respondent id who voted party and whose answers differ
\* from Answered in the columns of alt
CsvRow(id, party, alt) ==
    [id |-> id,
     cells |-> [c \in Range(csv_columns) |->
                   IF c = "idno" THEN id
                   ELSE IF c = "prtvteit" THEN party
                   ELSE IF c \in DOMAIN alt THEN alt[c]
                   ELSE Answered[c]]]

\* pd.read_csv: rows indexed 0, 1, ... in file order
CsvTable(spec) ==
    [columns |-> csv_columns,
     rows |-> [i \in DOMAIN spec |-> CsvRow(i - 1, spec[i][1], spec[i][2])]]

\* codes of prtvteit: the parties 1..10, another party, the missing codes,
\* and an empty cell
PartyCodes == (1..11) \cup {66, 77, 88, 99, NaN}

PartySample == {1, 3, 6, 8, 9, 10, 66, NaN}

NoAlt == <<>>

\* values an answer cell can take besides the answered one: the column's own
\* missing codes, an empty cell, and codes that are missing codes only of
\* other columns
CellCodes(c) ==
    Range(rule_values(column_mapping[c])) \cup {NaN}
        \cup ({7, 77} \ Range(rule_values(column_mapping[c])))

AllCellCodes == UNION {CellCodes(c) : c \in DOMAIN Answered}

\* the alterations of at most n answer cells
Alterations(n) ==
    UNION {{f \in [D -> AllCellCodes] : \A c \in D : f[c] \in CellCodes(c)} :
              D \in {D \in SUBSET (DOMAIN Answered) : Cardinality(D) <= n}}

\* rows of the multi-row tables: every party code with all answers given, and
\* a mapped party with missing codes in one or two columns
AltSample ==
    { ("hinctnta" :> 77),
      ("eqpaybg" :> 8),
      ("region" :> 99999) @@ ("hinctnta" :> 88),
      ("agea" :> 77) @@ ("stfdem" :> NaN) }

RowSample ==
    {<<p, NoAlt>> : p \in PartyCodes} \cup ({1, 10} \X AltSample)

PermRows ==
    {<<3, NoAlt>>} \cup ({1} \X AltSample) \cup {<<10, ("hinctnta" :> 77)>>}

TablesOver(rowspecs, n) == UNION {[1..m -> rowspecs] : m \in 0..n}

\* the permutations of the rule order tried: every transposition, every
\* rotation, and the reversal
Swap(s, i, j) ==
    [x \in DOMAIN s |-> IF x = i THEN s[j] ELSE IF x = j THEN s[i] ELSE s[x]]

Rotate(s, n) == [x \in DOMAIN s |-> s[((x - 1 + n) % Len(s)) + 1]]

Reverse(s) == [x \in DOMAIN s |-> s[Len(s) + 1 - x]]

PermFamily ==
    {Swap(rule_columns, i, j) : i, j \in DOMAIN rule_columns}
        \cup {Rotate(rule_columns, n) : n \in DOMAIN rule_columns}
        \cup {Reverse(rule_columns)}

\* a csv file that lacks column c
WithoutColumn(t, c) ==
    LET present(x) == x # c
    IN  [columns |-> SelectSeq(t.columns, present),
         rows |-> [i \in DOMAIN t.rows |->
                      [id |-> t.rows[i].id,
                       cells |-> [x \in Range(t.columns) \ {c} |-> t.rows[i].cells[x]]]]]

\* files with a column of columns_to_keep absent
IncompleteTables ==
    {WithoutColumn(CsvTable(spec), c) :
        spec \in TablesOver({<<3, NoAlt>>, <<66, NoAlt>>}, MaxRows),
        c \in Range(columns_to_keep)}

InitRest ==
    /\ df_selected = EmptyTable /\ df_missing = EmptyTable
    /\ df_filtered = EmptyTable /\ collapsed = EmptyTable
    /\ grouped_missing = <<>> /\ contingency_table = <<>>
    /\ report = <<>> /\ k = 0
    /\ num_observations = len(df)
    /\ party_counts = value_counts(EmptyTable, "VotedParty")
    /\ df_final = EmptyTable /\ df_final2 = EmptyTable
    /\ X = EmptyTable /\ y = <<>> /\ X_scaled = <<>>
    /\ X_train = EmptyTable /\ X_test = EmptyTable
    /\ y_train = <<>> /\ y_test = <<>>
    /\ X_train_resampled = EmptyTable /\ y_train_resampled = <<>>
    /\ block = 0
    /\ clf_classes = <<>> /\ class_names = <<>>
    /\ result = <<>> /\ age_effect = <<>>
    /\ run = 1
    /\ pc = "read"

\* the tables read: up to MaxRows respondents drawn from RowSample, and a
\* respondent with any party of PartySample and any alteration of at most
\* MaxAltered answers, followed by a respondent who answered everything
InputTables ==
    TablesOver(RowSample, MaxRows)
        \cup {<< <<p, alt>>, <<3, NoAlt>> >> :
                 p \in PartySample, alt \in Alterations(MaxAltered)}

\* a file large enough for the model blocks: MaxClassRows voters of party 2
\* followed by MaxClassRows + 1 voters of party 3, every answer given
ModelTables ==
    {[i \in 1..(2 * MaxClassRows + 1) |->
         IF i <= MaxClassRows THEN <<2, NoAlt>> ELSE <<3, NoAlt>>]}

\* rules applied in the declared order
Init ==
    /\ \/ \E spec \in InputTables \cup ModelTables : df = CsvTable(spec)
       \/ df \in IncompleteTables
    /\ order = rule_columns
    /\ InitRest

\* the filter loop run in a permuted column order
InitPerm ==
    /\ \/ /\ \E spec \in TablesOver(PermRows, MaxRows) : df = CsvTable(spec)
          /\ order \in PermFamily
       \/ /\ \E spec \in ModelTables : df = CsvTable(spec)
          /\ order = Reverse(rule_columns)
    /\ InitRest

Spec == Init /\ [][Next]_vars

SpecPerm == InitPerm /\ [][Next]_vars

(***************************************************************************)
(* Vocabulary of the properties                                            *)
(***************************************************************************)
Rows(t) == Range(t.rows)

\* the script is past the coalition collapse (line 145)
PostCollapse == {"collapsed", "translated", "filtering", "done", "ValueError"}

\* the four coalitions: CSX, M5S, TerzoPolo, CDX
Coalitions == {1, 2, 3, 4}

\* the stated policy: party code -> coalition
PolicyCSX == {2, 7, 8, 10}

PolicyCDX == {1, 4, 5}

PolicyM5S == {3}

PolicyTerzoPolo == {6}

ListedCodes == PolicyCSX \cup PolicyCDX \cup PolicyM5S \cup PolicyTerzoPolo

PolicyCoalition(p) ==
    IF p \in PolicyCSX THEN 1
    ELSE IF p \in PolicyM5S THEN 2
    ELSE IF p \in PolicyTerzoPolo THEN 3
    ELSE 4

\* the declared sentinel set of a tracked column
sentinel_sets == [c \in DOMAIN values_by_column |-> Range(values_by_column[c])]

Sentinels(column) == sentinel_sets[column]

\* the tracked columns of a (renamed) row that hold one of their sentinels
SentinelColumns(cells) ==
    {c \in Range(rule_columns) : cells[c] \in Sentinels(c)}

\* the same for a row of the csv, whose columns carry the source names
RawSentinelColumns(cells) ==
    {c \in Range(columns_to_keep) : cells[c] \in Sentinels(column_mapping[c])}

(***************************************************************************)
(* C1  Completeness invariant: every row of the clean table df_filtered    *)
(* holds, in each tracked column, a value outside that column's declared   *)
(* sentinel set.                                                           *)
(***************************************************************************)
C1_Completeness ==
    pc = "done" =>
        \A r \in Rows(df_filtered) :
            \A i \in DOMAIN exclusion_rules :
                r.cells[exclusion_rules[i][1]] \notin Range(exclusion_rules[i][2])

\* a run that ended with rows kept and rows with a sentinel removed
C1_Witness ==
    /\ pc = "done" /\ run = 1
    /\ len(df_filtered) > 0
    /\ \E r \in Rows(collapsed) :
           /\ SentinelColumns(r.cells) # {}
           /\ r.id \notin Ids(df_filtered)

(***************************************************************************)
(* C2  After the coalition collapse and in the clean table every row has   *)
(* VotedCoalition in {1 (CSX), 2 (M5S), 3 (TerzoPolo), 4 (CDX)}; none is   *)
(* missing.                                                                *)
(***************************************************************************)
C2_CoalitionResolved ==
    /\ pc \in PostCollapse =>
           \A r \in Rows(df_selected) : r.cells["VotedCoalition"] \in Coalitions
    /\ pc = "done" =>
           \A r \in Rows(df_filtered) : r.cells["VotedCoalition"] \in Coalitions

\* a table with an unclassifiable vote was read and rows were kept
C2_Witness ==
    /\ pc = "done" /\ run = 1
    /\ len(df_filtered) > 0
    /\ \E r \in Rows(df) : r.cells["prtvteit"] \notin ListedCodes
    /\ \E r \in Rows(df_filtered) : r.cells["VotedCoalition"] = 1

(***************************************************************************)
(* C3  For every row that survives the collapse the coalition follows the  *)
(* policy: CSX iff the party is in {2,7,8,10}, CDX iff in {1,4,5}, M5S iff *)
(* 3, TerzoPolo iff 6; the four code sets are pairwise disjoint.           *)
(***************************************************************************)
C3_PolicyFollowed ==
    /\ pc \in PostCollapse =>
           \A r \in Rows(df_selected) :
               /\ r.cells["VotedCoalition"] = 1 <=> r.cells["VotedParty"] \in PolicyCSX
               /\ r.cells["VotedCoalition"] = 4 <=> r.cells["VotedParty"] \in PolicyCDX
               /\ r.cells["VotedCoalition"] = 2 <=> r.cells["VotedParty"] \in PolicyM5S
               /\ r.cells["VotedCoalition"] = 3 <=> r.cells["VotedParty"] \in PolicyTerzoPolo
    /\ \A p \in PartyCodes :
           Cardinality({S \in {PolicyCSX, PolicyCDX, PolicyM5S, PolicyTerzoPolo} :
                            p \in S}) <= 1

\* two voters of different coalitions both survived the collapse
C3_Witness ==
    /\ pc = "collapsed" /\ run = 1
    /\ \E r1, r2 \in Rows(df_selected) :
           /\ r1.cells["VotedParty"] = 8 /\ r1.cells["VotedCoalition"] = 1
           /\ r2.cells["VotedParty"] = 5 /\ r2.cells["VotedCoalition"] = 4

(***************************************************************************)
(* C4  The collapse retains every row whose party code is listed in the    *)
(* policy ({1,...,8,10}); a row with VotedParty = 10 is retained and       *)
(* assigned CSX.                                                           *)
(***************************************************************************)
C4_ListedRetained ==
    (pc = "collapsed" /\ run = 1) =>
        \A r \in Rows(df) :
            r.cells["prtvteit"] \in ListedCodes =>
                /\ r.id \in Ids(df_selected)
                /\ RowOf(df_selected, r.id).cells["VotedCoalition"]
                       = PolicyCoalition(r.cells["prtvteit"])

(***************************************************************************)
(* C5  A row whose party code is not in the coalition mapping (9, 66, 77,  *)
(* 88, 99, another code, an empty cell) is gone once the collapse is over: *)
(* it is in no table of a later stage (translation, diagnostics, filters,  *)
(* clean table), holds no coalition, and is in no FilterReport count.      *)
(***************************************************************************)
Unmapped(t) == {r.id : r \in {x \in Rows(t) : x.cells["prtvteit"] \notin ListedCodes}}

C5_UnmappedDroppedAtCollapse ==
    (run = 1 /\ pc \in PostCollapse) =>
        LET unmapped == Unmapped(df)
            mapped == len(df) - Cardinality(unmapped)
        IN  /\ unmapped \cap Ids(df_selected) = {}
            /\ unmapped \cap Ids(df_missing) = {}
            /\ unmapped \cap Ids(df_filtered) = {}
            /\ \A g \in DOMAIN grouped_missing :
                   /\ g \in Coalitions
                   /\ \A c \in DOMAIN grouped_missing[g] :
                          grouped_missing[g][c][2] <= mapped
            /\ \A i \in DOMAIN report : report[i][2] <= mapped

\* rows with unmapped codes were read, and the filter loop has reported
C5_Witness ==
    /\ run = 1 /\ pc = "done"
    /\ \E r1, r2 \in Rows(df) :
           /\ r1.cells["prtvteit"] = 66
           /\ r2.cells["prtvteit"] \in ListedCodes
    /\ Len(report) = Len(rule_columns)
    /\ report[1][2] = 1

(***************************************************************************)
(* C6  No over-exclusion: every csv row whose party code is in the         *)
(* coalition mapping and which has no sentinel in a tracked column is in   *)
(* the clean table with the coalition of the policy, and the clean table   *)
(* is exactly this set of rows.                                            *)
(***************************************************************************)
Complete(t) ==
    {r \in Rows(t) : /\ r.cells["prtvteit"] \in ListedCodes
                     /\ RawSentinelColumns(r.cells) = {}}

C6_NoOverExclusion ==
    (pc = "done" /\ run = 1) =>
        /\ Ids(df_filtered) = {r.id : r \in Complete(df)}
        /\ \A r \in Complete(df) :
               r.id \in Ids(df_filtered) =>
                   RowOf(df_filtered, r.id).cells["VotedCoalition"]
                       = PolicyCoalition(r.cells["prtvteit"])

(***************************************************************************)
(* C7  A row with a mapped party code whose first sentinel (in filter      *)
(* order) is in column C leaves the collapse with its coalition, is still  *)
(* in the table after every filter before C, and is gone from C's filter   *)
(* step on.                                                                *)
(***************************************************************************)
\* the csv name of a renamed column
SourceName(n) == CHOOSE c \in DOMAIN column_mapping : column_mapping[c] = n

\* position in the filter order of the first tracked column holding a sentinel
FirstSentinel(cells) ==
    CHOOSE j \in DOMAIN order :
        /\ SourceName(order[j]) \in RawSentinelColumns(cells)
        /\ \A i \in 1..(j - 1) : SourceName(order[i]) \notin RawSentinelColumns(cells)

C7_DroppedAtFirstSentinel ==
    (run = 1 /\ HasColumns(df, columns_to_keep)) =>
        \A r \in Rows(df) :
            (r.cells["prtvteit"] \in ListedCodes /\ RawSentinelColumns(r.cells) # {}) =>
                /\ pc = "collapsed" =>
                       /\ r.id \in Ids(df_selected)
                       /\ RowOf(df_selected, r.id).cells["VotedCoalition"]
                              = PolicyCoalition(r.cells["prtvteit"])
                /\ (pc = "filtering" /\ k <= FirstSentinel(r.cells)) =>
                       r.id \in Ids(df_selected)
                /\ (pc = "filtering" /\ k > FirstSentinel(r.cells)) =>
                       r.id \notin Ids(df_selected)
                /\ pc = "done" => r.id \notin Ids(df_filtered)

(***************************************************************************)
(* C8  If every party code of the csv is listed in the policy or is one of *)
(* 9, 66, 77, 88, 99, the row count after the collapse is the row count    *)
(* of the csv minus the number of rows with a code in {9, 66, 77, 88, 99}. *)
(***************************************************************************)
DroppedCodes == {9, 66, 77, 88, 99}

C8_CollapseCount ==
    (pc = "collapsed" /\ run = 1
        /\ \A r \in Rows(df) : r.cells["prtvteit"] \in ListedCodes \cup DroppedCodes)
    => len(df_selected) =
           len(df) - Cardinality({i \in DOMAIN df.rows :
                                     df.rows[i].cells["prtvteit"] \in DroppedCodes})

(***************************************************************************)
(* C9  Order-invariance: applying the per-column filters in a permuted     *)
(* column order leaves the same final rows as the declared order.          *)
(***************************************************************************)
C9_OrderInvariant ==
    pc = "done" =>
        Rows(df_filtered) = Rows(ApplyRules(collapsed, rule_columns, Len(rule_columns)))

\* a row with sentinels in two columns was filtered in an order that swaps them
C9_Witness ==
    /\ pc = "done" /\ run = 1
    /\ len(df_filtered) > 0
    /\ \E r \in Rows(collapsed) :
           \E c1, c2 \in SentinelColumns(r.cells) :
               /\ IndexOf(rule_columns, c1) < IndexOf(rule_columns, c2)
               /\ IndexOf(order, c1) > IndexOf(order, c2)

(***************************************************************************)
(* C10  Idempotence.  As stated: re-applying the full pipeline (projection *)
(* and rename, collapse, filter) to the clean table gives the same table,  *)
(* with no error and no row removed.                                       *)
(***************************************************************************)
C10_FullReapplyIdempotent ==
    run = 2 =>
        /\ pc # "KeyError"
        /\ pc = "done" => df_filtered = df

(***************************************************************************)
(* C10, amended: re-applying the stages after the rename (collapse,        *)
(* translation, diagnostics, filter loop) to the clean table leaves it     *)
(* unchanged at every stage, and ends without error when the table has a   *)
(* row; the column projection itself raises KeyError on the clean table,   *)
(* whose columns carry the new names.                                      *)
(***************************************************************************)
C10_ReapplyFromCollapseIdempotent ==
    /\ run = 3 =>
           /\ df_selected = df
           /\ pc = "done" => df_filtered = df
           /\ pc = "ValueError" => len(df) = 0
    /\ (run = 2 /\ pc # "read") => pc = "KeyError"

\* the stages were re-applied to a clean table with rows, to the end
C10_Witness ==
    /\ run = 3 /\ pc = "done"
    /\ len(df_filtered) > 0

(***************************************************************************)
(* C11  The FilterReport has one entry per tracked column, in the declared *)
(* order of exclusion_rules (VotedParty first, Region last); the k-th      *)
(* count is the number of post-collapse rows with no sentinel in any of    *)
(* the first k columns, so the counts never increase and the last one is   *)
(* the size of the clean table.                                            *)
(***************************************************************************)
NoSentinelInFirst(cells, n) ==
    \A i \in 1..n : cells[rule_columns[i]] \notin Sentinels(rule_columns[i])

C11_FilterReport ==
    pc \in {"filtering", "done"} =>
        /\ Len(report) = IF pc = "done" THEN Len(rule_columns) ELSE k - 1
        /\ \A i \in DOMAIN report :
               /\ report[i][1] = rule_columns[i]
               /\ report[i][2] = Cardinality({j \in DOMAIN collapsed.rows :
                                      NoSentinelInFirst(collapsed.rows[j].cells, i)})
        /\ \A i \in 1..(Len(report) - 1) : report[i + 1][2] <= report[i][2]
        /\ pc = "done" =>
               /\ report[1][1] = "VotedParty"
               /\ report[Len(report)][1] = "Region"
               /\ report[Len(report)][2] = len(df_filtered)

\* the loop ended with a count that dropped on the way and rows left
C11_Witness ==
    /\ pc = "done" /\ run = 1
    /\ Len(report) = Len(rule_columns)
    /\ report[Len(report)][2] > 0
    /\ \E i \in 1..(Len(report) - 1) : report[i + 1][2] < report[i][2]

(***************************************************************************)
(* C12  The sentinel-to-missing translation leaves df_selected as it was   *)
(* (sentinel codes still in it), and df_missing differs from it only in    *)
(* cells of rule columns whose value is in the column's sentinel set.      *)
(***************************************************************************)
C12_TranslationFrame ==
    pc = "translated" =>
        /\ df_selected = collapsed
        /\ df_missing.columns = df_selected.columns
        /\ Len(df_missing.rows) = Len(df_selected.rows)
        /\ \A i \in DOMAIN df_selected.rows :
               /\ df_missing.rows[i].id = df_selected.rows[i].id
               /\ \A c \in Range(df_selected.columns) :
                      df_missing.rows[i].cells[c] # df_selected.rows[i].cells[c] =>
                          /\ c \in Range(rule_columns)
                          /\ df_selected.rows[i].cells[c] \in Sentinels(c)
                          /\ df_missing.rows[i].cells[c] = NaN

\* a table with a sentinel code was translated
C12_Witness ==
    /\ pc = "translated" /\ run = 1
    /\ \E i \in DOMAIN df_selected.rows :
           /\ df_selected.rows[i].cells["HouseholdIncome"] = 77
           /\ df_missing.rows[i].cells["HouseholdIncome"] = NaN
           /\ df_missing.rows[i].cells["VotedCoalition"] \in Coalitions

(***************************************************************************)
(* C13  The missingness diagnostics are read-only: the table that enters   *)
(* the completeness filter is the post-collapse table as it was before     *)
(* them, and the clean table is what the filters alone make of it.         *)
(***************************************************************************)
C13_DiagnosticsReadOnly ==
    /\ (pc = "filtering" /\ k = 1) => df_selected = collapsed
    /\ pc \in {"filtering", "ValueError", "done"} => df_missing = Translate(collapsed)
    /\ pc = "done" => df_filtered = ApplyRules(collapsed, order, Len(order))

\* the diagnostics found a missing cell, and the filters ran after them
C13_Witness ==
    /\ pc = "done" /\ run = 1
    /\ len(df_filtered) > 0
    /\ \E g \in DOMAIN grouped_missing :
           grouped_missing[g]["HouseholdIncome"][1] > 0

(***************************************************************************)
(* C14  If a listed source column is absent from the csv, the projection   *)
(* fails with an error that ends the run: no renamed table, coalition      *)
(* column, diagnostics, FilterReport entry or clean table is produced.     *)
(***************************************************************************)
C14_SchemaErrorAborts ==
    (run = 1 /\ ~HasColumns(df, columns_to_keep)) =>
        /\ pc \in {"read", "KeyError"}
        /\ df_selected = EmptyTable
        /\ df_missing = EmptyTable
        /\ collapsed = EmptyTable
        /\ grouped_missing = <<>>
        /\ contingency_table = <<>>
        /\ report = <<>>
        /\ df_filtered = EmptyTable

\* a csv with rows and a column absent was read and the run stopped
C14_Witness ==
    /\ run = 1 /\ pc = "KeyError"
    /\ len(df) > 0
    /\ "hinctnta" \notin Range(df.columns)

(***************************************************************************)
(* C15  If the coalition collapse or a completeness filter leaves the      *)
(* table with zero rows, the pipeline enters a fatal EmptyResult error     *)
(* state at that stage; it does not go on with an empty table.             *)
(***************************************************************************)
C15_EmptyResultFatal ==
    (len(df) > 0 /\ pc \in {"collapsed", "translated", "filtering", "done"}) =>
        len(df_selected) > 0

(***************************************************************************)
(* C16                                                                     *)
(***************************************************************************)
RECURSIVE SumCounts(_, _)
\* the rows the tally counts for the codes of S
SumCounts(counts, S) ==
    IF S = {} THEN 0
    ELSE LET c == CHOOSE x \in S : TRUE
         IN  counts[c] + SumCounts(counts, S \ {c})

\* positions of the raw rows whose party code is a declared sentinel
SentinelExcluded ==
    {i \in DOMAIN df.rows : df.rows[i].cells["prtvteit"] \in Sentinels("VotedParty")}

\* positions of the raw rows whose party code is neither listed in the
\* mapping nor a declared sentinel (code 9, an unknown code, an empty cell)
UnexplainedExcluded ==
    {i \in DOMAIN df.rows :
        df.rows[i].cells["prtvteit"] \notin ListedCodes \cup Sentinels("VotedParty")}

IdSeq(t) == [i \in DOMAIN t.rows |-> t.rows[i].id]

\* C17: the projection yields exactly the 17 listed source columns, in the
\* listed order, and the rename replaces each by its new name; the 17 new
\* names are distinct; the rows are the raw rows in the raw order, and every
\* cell holds the raw value of its source column.
C17_ProjectionRename ==
    /\ (run = 1 /\ pc = "projected") =>
           /\ df_selected.columns = columns_to_keep
           /\ Len(df_selected.columns) = 17
           /\ IdSeq(df_selected) = IdSeq(df)
           /\ \A i \in DOMAIN df.rows :
                  /\ DOMAIN df_selected.rows[i].cells = Range(columns_to_keep)
                  /\ \A c \in Range(columns_to_keep) :
                         df_selected.rows[i].cells[c] = df.rows[i].cells[c]
    /\ (run = 1 /\ pc = "renamed") =>
           /\ df_selected.columns
                  = [i \in DOMAIN columns_to_keep |-> column_mapping[columns_to_keep[i]]]
           /\ Cardinality(Range(df_selected.columns)) = 17
           /\ IdSeq(df_selected) = IdSeq(df)
           /\ \A i \in DOMAIN df.rows :
                  /\ DOMAIN df_selected.rows[i].cells = Range(df_selected.columns)
                  /\ \A c \in Range(columns_to_keep) :
                         df_selected.rows[i].cells[column_mapping[c]] = df.rows[i].cells[c]

\* a raw table with the respondent number and two respondents who gave the
\* same answers, projected and renamed
C17_Witness ==
    /\ run = 1 /\ pc = "renamed"
    /\ "idno" \in Range(df.columns) /\ "idno" \notin Range(df_selected.columns)
    /\ len(df) = 2 /\ len(df_selected) = 2
    /\ \A c \in Range(columns_to_keep) : df.rows[1].cells[c] = df.rows[2].cells[c]

(***************************************************************************)
(* C18                                                                     *)
(***************************************************************************)
\* position of the raw row with index label id
RawPosition(id) == CHOOSE i \in DOMAIN df.rows : df.rows[i].id = id

\* C18: every row of the clean table is a raw row, no raw row appears twice,
\* the clean rows stand in the raw order, and each cell of a tracked column
\* holds the value the raw table has for the same respondent.
C18_ExclusionOnly ==
    (run = 1 /\ pc = "done") =>
        /\ \A i \in DOMAIN df_filtered.rows : df_filtered.rows[i].id \in Ids(df)
        /\ \A i, j \in DOMAIN df_filtered.rows :
               i < j => RawPosition(df_filtered.rows[i].id)
                            < RawPosition(df_filtered.rows[j].id)
        /\ \A i \in DOMAIN df_filtered.rows :
               \A c \in Range(columns_to_keep) :
                   df_filtered.rows[i].cells[column_mapping[c]]
                       = RowOf(df, df_filtered.rows[i].id).cells[c]

\* a run that removed the first raw row and kept the second
C18_Witness ==
    /\ run = 1 /\ pc = "done"
    /\ len(df) = 2 /\ len(df_filtered) = 1
    /\ df_filtered.rows[1].id = df.rows[2].id

(***************************************************************************)
(* C19                                                                     *)
(***************************************************************************)
\* C19: the clean table has no missing marker in a tracked column, also when
\* the raw table has natively missing cells: the sentinel-to-missing
\* translation of the clean table has no missing cell.
C19_CleanFreeOfMissing ==
    (run = 1 /\ pc = "done") =>
        \A r \in Rows(Translate(df_filtered)) :
            \A c \in Range(rule_columns) : ~isna(r.cells[c])

(***************************************************************************)
(* C20                                                                     *)
(***************************************************************************)
\* the labels a table carries: its column list and the cells of its rows
Labels(t) == Range(t.columns) \cup UNION {DOMAIN r.cells : r \in Rows(t)}

\* C20: the table handed to modelling has no VotedParty column, and no
\* feature matrix (X of lines 593 and 708, and its standardized form) has a
\* VotedParty or a VotedCoalition column.
C20_NoOutcomeLeak ==
    /\ pc \in {"final", "features", "features_reduced", "scaled"} =>
           "VotedParty" \notin Labels(df_final)
    /\ pc \in {"features", "features_reduced", "scaled"} =>
           Labels(X) \cap {"VotedParty", "VotedCoalition"} = {}
    /\ pc \in {"features_reduced", "scaled"} =>
           "VotedParty" \notin Labels(df_final2)
    /\ pc = "scaled" =>
           Range(X_scaled) \cap {"VotedParty", "VotedCoalition"} = {}

\* a clean table with VotedParty and rows, taken through to the last fit
C20_Witness ==
    /\ run = 1 /\ pc = "scaled"
    /\ len(df_filtered) > 0 /\ len(X) = len(df_filtered)
    /\ "VotedParty" \in Labels(df_filtered)
    /\ "VotedCoalition" \in Labels(df_final2)
    /\ Len(y) = len(X)

(***************************************************************************)
(* C21                                                                     *)
(***************************************************************************)
\* the codes label_names gives a label for in a column
LabelledCodes(column) ==
    IF column \in DOMAIN label_names THEN DOMAIN label_names[column] ELSE {}

\* C21: for every tracked column (every column the filter loop runs over), no
\* code that label_names maps to a label is one of the column's sentinel
\* codes in exclusion_rules.
C21_SentinelsNotLabelled ==
    \A column \in Range(order) :
        Sentinels(column) \cap LabelledCodes(column) = {}

(***************************************************************************)
(* C22                                                                     *)
(***************************************************************************)
\* the cells of a table's rows
CellsOf(t) == {r.cells : r \in Rows(t)}

\* C22: in a block with SMOTE or RandomOverSampler the test part, from the
\* split on, holds only rows of the clean table (index label and cells, less
\* the columns dropped for modelling), holds no row twice and shares no row
\* with the training part; the oversampled table is the training part
\* followed by rows made from training rows, so no test row enters it.
C22_TestSetUntouched ==
    pc \in {"split", "resampled", "resample_ValueError"} =>
        LET clean == drop(df_filtered, {"VotedParty", "LeftRightScale", "VotedCoalition"})
        IN  /\ \A i \in DOMAIN X_test.rows :
                   /\ X_test.rows[i].id \in Ids(df_filtered)
                   /\ X_test.rows[i].cells = RowOf(clean, X_test.rows[i].id).cells
            /\ \A i, j \in DOMAIN X_test.rows :
                   i # j => X_test.rows[i].id # X_test.rows[j].id
            /\ Ids(X_test) \cap Ids(X_train) = {}
            /\ Ids(X_test) \cup Ids(X_train) = Ids(df_filtered)
            /\ y_test = take_y(y, Ids(X_test))
            /\ pc = "resampled" =>
                   /\ len(X_train_resampled) >= len(X_train)
                   /\ \A i \in DOMAIN X_train.rows :
                          X_train_resampled.rows[i].cells = X_train.rows[i].cells
                   /\ CellsOf(X_train_resampled) \subseteq CellsOf(X_train)
                   /\ Len(y_train_resampled) = len(X_train_resampled)

\* the RandomOverSampler block, reached after the SMOTE block, has added rows
\* to a training part and left a test part of several rows
C22_Witness ==
    /\ run = 1 /\ pc = "resampled"
    /\ resampling_blocks[block] = "RandomOverSampler"
    /\ len(X_train_resampled) > len(X_train)
    /\ len(X_test) > 1
    /\ Cardinality(classes(y_test)) > 1

(***************************************************************************)
(* C23                                                                     *)
(***************************************************************************)
\* the table the coalition collapse leaves for a csv table (lines 69-145)
CollapseOf(t) ==
    dropna(WithCoalition(RangeFilter(
        Rename(Project(t, columns_to_keep), column_mapping))))

\* the report lines the filter loop prints from position i of columns on,
\* for a table t that has been through the rules before i
RECURSIVE ReportOf(_, _, _)
ReportOf(t, columns, i) ==
    IF i > Len(columns)
    THEN <<>>
    ELSE LET left == ExclusionFilter(t, columns[i], rule_values(columns[i]))
         IN  <<<<columns[i], len(left)>>>> \o ReportOf(left, columns, i + 1)

GroupRows(g) ==
    {i \in DOMAIN collapsed.rows : collapsed.rows[i].cells["VotedCoalition"] = g}

\* C24 as stated: the rates are those of the post-collapse table, and for
\* every coalition g and tracked column c the rate is the number of rows of g
\* whose value in c is one of c's sentinel codes over the number of rows of g,
\* hence between 0 and 1.
C24_RatesCountSentinels ==
    pc \in {"filtering", "ValueError", "done"} =>
        /\ DOMAIN grouped_missing = Groups(collapsed)
        /\ \A g \in DOMAIN grouped_missing : \A c \in Range(rule_columns) :
               /\ grouped_missing[g][c][1]
                      = Cardinality({i \in GroupRows(g) :
                            collapsed.rows[i].cells[c] \in Sentinels(c)})
               /\ grouped_missing[g][c][2] = Cardinality(GroupRows(g))
               /\ grouped_missing[g][c][2] > 0
               /\ grouped_missing[g][c][1] <= grouped_missing[g][c][2]

\* C24, amended: the rates are those of the post-collapse table, and for
\* every coalition g and tracked column c the rate is the number of rows of g
\* whose value in c is one of c's sentinel codes or is natively missing, over
\* the number of rows of g, hence between 0 and 1.
C24_RatesCountMissing ==
    pc \in {"filtering", "ValueError", "done"} =>
        /\ DOMAIN grouped_missing = Groups(collapsed)
        /\ \A g \in DOMAIN grouped_missing :
               LET of_g == GroupRows(g)
               IN  \A c \in Range(rule_columns) :
                       /\ grouped_missing[g][c][1]
                              = Cardinality({i \in of_g :
                                    \/ collapsed.rows[i].cells[c] \in Sentinels(c)
                                    \/ isna(collapsed.rows[i].cells[c])})
                       /\ grouped_missing[g][c][2] = Cardinality(of_g)
                       /\ grouped_missing[g][c][2] > 0
                       /\ grouped_missing[g][c][1] <= grouped_missing[g][c][2]

\* the filter loop has removed a row, and the rates still show a coalition
\* with two rows, one of them with a natively missing cell
C24_Witness ==
    /\ run = 1 /\ pc = "done"
    /\ len(df_filtered) < len(collapsed)
    /\ \E g \in DOMAIN grouped_missing : \E c \in Range(rule_columns) :
           /\ grouped_missing[g][c] = <<1, 2>>
           /\ \E i \in GroupRows(g) : isna(collapsed.rows[i].cells[c])

(***************************************************************************)
(* C25                                                                     *)
(***************************************************************************)
\* C25: the contingency table handed to the chi-square test has the two rows
\* "HouseholdIncome missing" and "HouseholdIncome not missing", one column for
\* each coalition of the post-collapse table, and cells that sum to the
\* post-collapse row count, whatever the number of rows with a missing
\* HouseholdIncome.
C25_TwoRowsPerCoalition ==
    pc \in {"filtering", "ValueError", "done"} =>
        /\ contingency_table.index = {TRUE, FALSE}
        /\ contingency_table.columns = Groups(collapsed)
        /\ SumCounts(contingency_table.n, DOMAIN contingency_table.n) = len(collapsed)

(***************************************************************************)
(* C26                                                                     *)
(***************************************************************************)
\* C26: when the effect of Age is printed as "M5S vs CSX", the model held in
\* result has CSX as its baseline and M5S as its parameter column 0.
C26_ReportMatchesModel ==
    pc = "reported" =>
        /\ age_effect.printed = <<"M5S", "CSX">>
        /\ label_names.VotedCoalition[result.coalition[result.baseline]] = "CSX"
        /\ label_names.VotedCoalition[result.coalition[result.columns[1]]] = "M5S"
        /\ label_names.VotedCoalition[age_effect.baseline] = "CSX"
        /\ label_names.VotedCoalition[age_effect.equation] = "M5S"

(***************************************************************************)
(* C27                                                                     *)
(***************************************************************************)
\* C27: in every tree plot and heatmap the i-th class name passed for display
\* is the label of the i-th class code in ascending order.
C27_ClassNamesInClassOrder ==
    pc \in {"tree_plotted", "stratified_plotted"} =>
        \A i \in DOMAIN clf_classes :
            /\ i \in DOMAIN class_names
            /\ class_names[i] = target_name(clf_classes[i])
            /\ \A j \in DOMAIN clf_classes : i < j => clf_classes[i] < clf_classes[j]

C29_FirstFilterRemovesNothing ==
    /\ (pc \in {"filtering", "done"} /\ Len(report) > 0) =>
           report[1] = <<"VotedParty", len(collapsed)>>
    /\ pc \in {"filtering", "done", "ValueError"} =>
           \A g \in DOMAIN grouped_missing :
               grouped_missing[g]["VotedParty"][1] = 0

\* the filter on VotedParty has reported on a table with rows, after
\* diagnostics over more than one coalition
C29_Witness ==
    /\ run = 1
    /\ pc = "filtering" /\ Len(report) = 1
    /\ len(collapsed) > 1
    /\ Cardinality(DOMAIN grouped_missing) > 1

(***************************************************************************)
(* C30                                                                     *)
(***************************************************************************)
\* C30: the columns with a rule in exclusion_rules are exactly the 17 values
\* of column_mapping, the keys of column_mapping are exactly
\* columns_to_keep, and every column the translation loop and the filter
\* loop name is in the table they work on.
C30_RulesCoverColumns ==
    /\ pc = "read" =>
           /\ Range(rule_columns) = {column_mapping[c] : c \in DOMAIN column_mapping}
           /\ Cardinality(Range(rule_columns)) = 17
           /\ Len(rule_columns) = 17
           /\ DOMAIN column_mapping = Range(columns_to_keep)
           /\ Len(columns_to_keep) = 17
           /\ Range(order) = Range(rule_columns)
    /\ pc \in {"collapsed", "translated", "filtering", "done", "ValueError"} =>
           Range(df_selected.columns) = Range(rule_columns) \cup {"VotedCoalition"}
    /\ pc \in {"translated", "filtering", "done", "ValueError"} =>
           Range(rule_columns) \subseteq Range(df_missing.columns)
    /\ (pc = "filtering" /\ k \in DOMAIN order) =>
           order[k] \in Range(df_selected.columns)

\* both loops have run over all the rules on a table that kept rows
C30_Witness ==
    /\ run = 1 /\ pc = "done"
    /\ Len(report) = Len(rule_columns)
    /\ len(df_filtered) > 0
    /\ HasColumns(df_missing, rule_columns)

====
